---- MODULE Spec2Model ----
(***************************************************************************)
(* A model of the tool-augmented agent of ai-dial-general-purpose-agent.    *)
(*                                                                         *)
(* Spec     RagTool._execute (task/tools/rag/rag_tool.py) called by several *)
(*          in-flight tool calls of one process, over one DocumentCache,    *)
(*          with a generation backend that answers.                         *)
(* SpecSequential  RagTool._execute called by one tool call after the other, *)
(*          with long answer streams, cancelled turns and a generation      *)
(*          backend that may fail.                                          *)
(* SpecApp  GeneralPurposeAgentApplication.chat_completion (task/app.py)    *)
(*          serving several requests of a freshly started process.          *)
(* SpecFiles  one call of FileContentExtractionTool._execute                *)
(*          (task/tools/files/file_content_extraction_tool.py).             *)
(* SpecImage  one call of ImageGenerationTool._execute                      *)
(*          (task/tools/deployment/image_generation_tool.py).               *)
(* SpecInterpreter  one call of PythonCodeInterpreterTool._execute         *)
(*          (task/tools/py_interpreter/python_code_interpreter_tool.py).    *)
(*                                                                         *)
(* Scheduling.  Every _execute and every chat_completion is a coroutine of  *)
(* one asyncio event loop: a coroutine runs alone from one `await` to the   *)
(* next.  `running` is the call that holds the loop; a statement without   *)
(* `await` is taken while holding it, and an `await` releases it.           *)
(*                                                                         *)
(* Strings are sequences of atoms (TLA+ strings standing for characters or  *)
(* literal fragments); concatenation is \o.                                 *)
(***************************************************************************)
EXTENDS Integers, Sequences, FiniteSets, TLC

(* ------------------------------ bounds --------------------------------- *)

\* Tool calls the dispatcher issues (RagTool._execute invocations), in total.
MaxCalls == 2

\* Paragraphs of the largest extracted document.
MaxChunks == 4

\* Items the generation streams of all calls yield, in total.
MaxStreamItems == 2

\* chat_completion requests reaching the process.
NumRequests == 3

\* The largest page number a caller of the extraction tool asks for.
MaxPage == 4

\* Attachments of the largest message the image deployment returns.
MaxAttachments == 3

\* Files of the largest execution result of the interpreter.
MaxFiles == 2

\* Output entries of the largest execution result of the interpreter.
MaxOutputs == 2

(* ----------------------------- strings --------------------------------- *)

RECURSIVE Join(_, _)
\* sep.join(parts) of Python, for a sequence of strings.
Join(parts, sep) ==
    IF parts = <<>> THEN <<>>
    ELSE IF Len(parts) = 1 THEN parts[1]
    ELSE parts[1] \o sep \o Join(Tail(parts), sep)

RECURSIVE Concat(_)
\* The concatenation of a sequence of strings.
Concat(parts) ==
    IF parts = <<>> THEN <<>> ELSE parts[1] \o Concat(Tail(parts))

\* Python truthiness of a string (None and "" are falsy).
Truthy(s) == s # <<>>

(* ------------------------------ inputs --------------------------------- *)

\* The tool calls the dispatcher has in flight at a time: a call takes one of
\* these places, and the place is free again once its context is discarded.
Calls == {1, 2}
NoCall == 0

\* Conversation identifiers (the x-conversation-id the dispatcher passes on)
\* and file URLs: arbitrary strings, which may hold the character ":".
ConversationIds == { <<"a">>, <<"a", ":", "b">> }
FileUrls == { <<"c">>, <<"b", ":", "c">> }
Requests == { <<"q1">> }

ParagraphNames == <<"p1", "p2", "p3", "p4", "p5", "p6">>
ParagraphBreak == "\n\n"
\* The markdown code fence (three grave accents), as one atom.
Fence == "<fence>"
Whitespace == " "

\* The document of n full-size paragraphs separated by blank lines.
Document(n) == Join([i \in 1..n |-> <<ParagraphNames[i]>>], <<ParagraphBreak>>)

\* What the extractor may return for a file: no content, a text of
\* whitespace only, or a document of one or of MaxChunks paragraphs.
NoContent == <<>>
Texts == {NoContent, <<Whitespace>>, Document(1), Document(MaxChunks)}

\* Stream items of the generation call: a chunk without choices, a chunk whose
\* delta carries no content, or a chunk whose delta carries a text token.
StreamItem(choices, content) == [choices |-> choices, content |-> content]
Tokens == { <<"x">>, <<"y", "z">> }
StreamItems ==
    {StreamItem(FALSE, <<>>), StreamItem(TRUE, <<>>)}
        \cup {StreamItem(TRUE, t) : t \in Tokens}
NoItem == StreamItem(FALSE, <<>>)

(* --------------------------- collaborators ----------------------------- *)

RECURSIVE SplitOn(_, _, _)
\* The pieces of text between occurrences of the separator atom; `piece` is
\* the piece being read.
SplitOn(text, sep, piece) ==
    IF text = <<>> THEN <<piece>>
    ELSE IF text[1] = sep THEN <<piece>> \o SplitOn(Tail(text), sep, <<>>)
    ELSE SplitOn(Tail(text), sep, Append(piece, text[1]))

RECURSIVE Strip(_)
\* str.strip(): leading and trailing whitespace removed.
Strip(s) ==
    IF s = <<>> THEN s
    ELSE IF s[1] = Whitespace THEN Strip(Tail(s))
    ELSE IF s[Len(s)] = Whitespace THEN Strip(SubSeq(s, 1, Len(s) - 1))
    ELSE s

\* The splitter gone wrong: the pieces left empty are kept.
split_text_keeps_empty(text) ==
    LET pieces == SplitOn(text, ParagraphBreak, <<>>)
    IN  [i \in 1..Len(pieces) |-> Strip(pieces[i])]

\* text_splitter.split_text: the text is cut at paragraph breaks, every piece
\* is stripped and the pieces left empty are dropped.  A paragraph name
\* stands for a paragraph that fills a chunk, so no two pieces are merged.
split_text(text) ==
    LET pieces == SplitOn(text, ParagraphBreak, <<>>)
        stripped == [i \in 1..Len(pieces) |-> Strip(pieces[i])]
    IN  SelectSeq(stripped, Truthy)

\* The embedding model on one atom: a fixed table (the model is a black box,
\* deterministic and the same for chunks and queries).
Code(atom) ==
    CASE atom = "p1" -> 7
      [] atom = "p2" -> 4
      [] atom = "p3" -> 1
      [] atom = "p4" -> 8
      [] atom = "p5" -> 5
      [] atom = "p6" -> 2
      [] atom = "q1" -> 4
      [] atom = "q2" -> 9
      [] OTHER -> 0

RECURSIVE Embed(_)
\* The embedding vector of one string (one coordinate stands for the 384).
Embed(s) == IF s = <<>> THEN 0 ELSE Code(s[1]) + Embed(Tail(s))

\* model.encode(sentences): one vector per sentence, in order.
encode(sentences) == [i \in 1..Len(sentences) |-> Embed(sentences[i])]

\* Squared L2 distance of IndexFlatL2.
L2(u, v) == (u - v) * (u - v)

\* index.search(query, k): every answer the index may give: k distinct
\* 0-based positions of the k nearest vectors, by ascending distance (ties in
\* any order); positions beyond the stored vectors are reported as -1.
search(index, query, k) ==
    LET n == Len(index)
        found == IF k < n THEN k ELSE n
        dist(i) == L2(index[i + 1], query)
    IN  { res \in [1..k -> (0..(n - 1)) \cup {-1}] :
            /\ \A i \in 1..found : res[i] # -1
            /\ \A i \in (found + 1)..k : res[i] = -1
            /\ \A i, j \in 1..found : i < j =>
                   res[i] # res[j] /\ dist(res[i]) <= dist(res[j])
            /\ \A p \in 0..(n - 1) :
                   (\A i \in 1..found : res[i] # p) =>
                       \A i \in 1..found : dist(res[i]) <= dist(p) }

\* Python list indexing list[idx]: negative positions count from the end.
InRange(list, idx) == -Len(list) <= idx /\ idx < Len(list)
PyIndex(list, idx) == IF idx >= 0 THEN list[idx + 1] ELSE list[Len(list) + idx + 1]

\* min(a, b) of Python.
min(a, b) == IF a <= b THEN a ELSE b

(* --------------------------- DocumentCache ----------------------------- *)

\* A cache is a function from the keys it holds to (index, chunks) tuples.
\* DocumentCache.create(): an empty cache.
DocumentCacheCreate == << >>

None == <<>>
Some(x) == <<x>>

\* document_cache.get(key): the entry, or None.
CacheGet(cache, key) ==
    IF key \in DOMAIN cache THEN Some(cache[key]) ELSE None

\* document_cache.set(key, index, chunks): the entry is replaced wholesale.
CacheSet(cache, key, index, chunks) ==
    [k \in DOMAIN cache \cup {key} |->
        IF k = key THEN <<index, chunks>> ELSE cache[k]]

\* The cache's autoclean dropping one entry.
CacheEvict(cache, key) ==
    [k \in DOMAIN cache \ {key} |-> cache[k]]

(* ------------------------------ RagTool -------------------------------- *)

\* cache_document_key = f"{conversation_id}:{file_url}"
cache_document_key(conversation_id, file_url) ==
    conversation_id \o <<":">> \o file_url

\* The augmentation gone wrong: the chunks are joined last to first.
augmentation_reversed(request, retrieved_chunks) ==
    <<"CONTEXT:\n">>
        \o Join([i \in 1..Len(retrieved_chunks) |->
                    retrieved_chunks[Len(retrieved_chunks) + 1 - i]], <<"\n\n">>)
        \o <<"\n---\nREQUEST: ">> \o request

\* RagTool.__augmentation(request, chunks)
augmentation(request, retrieved_chunks) ==
    <<"CONTEXT:\n">> \o Join(retrieved_chunks, <<"\n\n">>)
        \o <<"\n---\nREQUEST: ">> \o request

AllKeys == {cache_document_key(c, f) : c \in ConversationIds, f \in FileUrls}

VARIABLES
    document_cache,  \* RagTool.document_cache
    running,         \* the call holding the event loop, or NoCall
    pc,              \* where each call is in _execute
    params,          \* each call's ToolCallParams: conversation_id, file_url, request
    stage,           \* each call's stage: the strings appended, in order
    frame,           \* each call's local variables (cached_for: the pair the
                     \* entry it was handed had been built for)
    result,          \* what each call returned
    invoked,         \* how often each call invoked each collaborator
    arrived,         \* the stream items each call has received, in order
    calls_made,      \* tool calls issued so far
    received,        \* stream items received so far, by all calls
    in_flight_limit, \* how many tool calls the dispatcher runs at a time
    stream_limit,    \* how many stream items the generation backend yields in all
    built_for,       \* per cached key, the (conversation_id, file_url) it was built for
    interrupted,     \* per call, what ended its generation early (a cancellation
                     \* or a failure) with the stage as it was then, or None
    abandoned        \* the cached keys whose entry was stored by a call whose
                     \* generation then ended early

rag_vars == <<document_cache, running, pc, params, stage, frame, result,
              invoked, arrived, calls_made, received, in_flight_limit,
              stream_limit, built_for, interrupted, abandoned>>

VARIABLES
    tools,           \* GeneralPurposeAgentApplication.tools (self.tools)
    req_pc,          \* where each chat_completion request is
    req_tools,       \* each request's list under construction in _create_tools
    req_agent,       \* the tool list each request's agent was given
    caches_created,  \* DocumentCache.create() calls so far
    installs,        \* assignments to self.tools so far
    replaced         \* whether an assignment replaced a non-empty self.tools

app_vars == <<tools, req_pc, req_tools, req_agent, caches_created, installs, replaced>>

VARIABLES
    fce_pc,          \* where the FileContentExtractionTool call is in _execute
    fce_arguments,   \* the JSON arguments of the call, by name
    fce_frame,       \* the call's local variables
    fce_stage,       \* the call's stage: the strings appended, in order
    fce_result       \* what the call returned

file_vars == <<fce_pc, fce_arguments, fce_frame, fce_stage, fce_result>>

VARIABLES
    img_pc,          \* where the ImageGenerationTool call is in _execute
    img_msg,         \* the message the parent's _execute returned
    img_done,        \* attachments the loop of line 29 has gone through
    img_choice,      \* the strings the call appended to the choice, in order
    img_result       \* the message the call returned

image_vars == <<img_pc, img_msg, img_done, img_choice, img_result>>

\* PythonCodeInterpreterTool: one call of _execute.
VARIABLES
    py_pc,                    \* where the call is in _execute
    py_arguments,             \* the arguments of the tool call
    py_stage,                 \* the strings appended to the stage, in order
    py_stage_attachments,     \* the attachments added to the stage, in order
    py_choice_attachments,    \* the attachments added to the choice, in order
    py_execution_result_json, \* the dict parsed from the remote's answer
    py_execution_result,      \* the validated _ExecutionResult
    py_files_done,            \* files the loop of line 150 has gone through
    py_resource,              \* the resource fetched for the file in hand
    py_uploads,               \* the uploads made to storage, in order
    py_invoked,               \* how often each remote operation was issued
    py_result                 \* the string the call returned

py_vars == <<py_pc, py_arguments, py_stage, py_stage_attachments,
             py_choice_attachments, py_execution_result_json,
             py_execution_result, py_files_done, py_resource, py_uploads,
             py_invoked, py_result>>

vars == <<rag_vars, app_vars, file_vars, image_vars, py_vars>>

limits == <<in_flight_limit, stream_limit>>

\* What the steps of RagTool leave alone.
not_rag == <<app_vars, file_vars, image_vars, py_vars>>

\* What the steps of the application leave alone.
not_app == <<rag_vars, file_vars, image_vars, py_vars>>

\* What the steps of the extraction tool leave alone.
not_file == <<rag_vars, app_vars, image_vars, py_vars>>

\* What the steps of the image tool leave alone.
not_image == <<rag_vars, app_vars, file_vars, py_vars>>

\* What the steps of the interpreter tool leave alone.
not_py == <<rag_vars, app_vars, file_vars, image_vars>>

\* A stage entry: the kind of line and the string appended.
Entry(kind, text) == [kind |-> kind, text |-> text]

NoParams == [conversation_id |-> <<>>, file_url |-> <<>>, request |-> <<>>]

NewFrame ==
    [cached_data |-> None, cached_for |-> <<>>, text_content |-> NoContent, chunks |-> <<>>,
     embeddings |-> <<>>, index |-> <<>>, k |-> 0, indices |-> <<>>,
     retrieved_chunks |-> <<>>, augmented_prompt |-> <<>>,
     content |-> <<>>, chunk |-> NoItem]

NoneInvoked ==
    [extract_text |-> 0, split_text |-> 0, encode_chunks |-> 0, index_add |-> 0,
     cache_set |-> 0, encode_query |-> 0, search |-> 0, generate |-> 0]

Key(c) == cache_document_key(params[c].conversation_id, params[c].file_url)

ChatRequests == 1..NumRequests

\* The state of a fresh RagTool whose dispatcher runs up to `calls` tool
\* calls at a time and whose generation backend yields `items` stream items.
RagStart(calls, items) ==
    /\ in_flight_limit = calls
    /\ stream_limit = items
    /\ document_cache = DocumentCacheCreate
    /\ running = NoCall
    /\ pc = [c \in Calls |-> "idle"]
    /\ params = [c \in Calls |-> NoParams]
    /\ stage = [c \in Calls |-> <<>>]
    /\ frame = [c \in Calls |-> NewFrame]
    /\ result = [c \in Calls |-> <<>>]
    /\ invoked = [c \in Calls |-> NoneInvoked]
    /\ arrived = [c \in Calls |-> <<>>]
    /\ calls_made = 0
    /\ received = 0
    /\ built_for = << >>
    /\ interrupted = [c \in Calls |-> None]
    /\ abandoned = {}

\* GeneralPurposeAgentApplication.__init__: self.tools = [].
AppInit ==
    /\ tools = <<>>
    /\ req_pc = [r \in ChatRequests |-> "idle"]
    /\ req_tools = [r \in ChatRequests |-> <<>>]
    /\ req_agent = [r \in ChatRequests |-> <<>>]
    /\ caches_created = 0
    /\ installs = 0
    /\ replaced = FALSE

\* A piece of a string: a literal, a formatted integer, or the characters
\* [from, to) of the text the extractor returned.
Lit(s) == [kind |-> "literal", s |-> s, from |-> 0, to |-> 0]
Num(n) == [kind |-> "integer", s |-> "", from |-> n, to |-> n]
Chars(from, to) == [kind |-> "chars", s |-> "", from |-> from, to |-> to]

\* A JSON value of the arguments: a string or an integer.
JsonString(s) == [type |-> "string", s |-> s, n |-> 0]
JsonInteger(n) == [type |-> "integer", s |-> "", n |-> n]

NewFileFrame ==
    [file_url |-> "", page |-> JsonInteger(0), content |-> <<>>,
     content_len |-> 0, extracted_len |-> 0, total_pages |-> 0]

\* No call of the extraction tool is under way.
FilesIdle ==
    /\ fce_pc = "idle"
    /\ fce_arguments = << >>
    /\ fce_frame = NewFileFrame
    /\ fce_stage = <<>>
    /\ fce_result = <<>>

\* A message of the image deployment: custom_content (or None), its
\* attachments, and the text content.
Message(has_custom_content, attachments, content) ==
    [has_custom_content |-> has_custom_content, attachments |-> attachments,
     content |-> content]

NoMessage == Message(FALSE, <<>>, <<>>)

\* No call of the image tool is under way.
ImageIdle ==
    /\ img_pc = "idle"
    /\ img_msg = NoMessage
    /\ img_done = 0
    /\ img_choice = <<>>
    /\ img_result = NoMessage

\* Tool calls run concurrently; every answer is short (one stream item).
\* An execution result: the files and the outputs of the run, and the
\* instructions for the model (empty when there are none).
ExecutionResult(files, output, instructions) ==
    [files |-> files, output |-> output, instructions |-> instructions]

NoResult == ExecutionResult(<<>>, <<>>, <<>>)

\* session_id of the arguments: absent, or an integer.
NoSession == [present |-> FALSE, n |-> 0]
Session(n) == [present |-> TRUE, n |-> n]

NoneInvokedRemote == [call_tool |-> 0, get_resource |-> 0, upload |-> 0]

\* No call of the interpreter tool is under way.
InterpreterIdle ==
    /\ py_pc = "idle"
    /\ py_arguments = [has_code |-> FALSE, code |-> "", session_id |-> NoSession]
    /\ py_stage = <<>>
    /\ py_stage_attachments = <<>>
    /\ py_choice_attachments = <<>>
    /\ py_execution_result_json = NoResult
    /\ py_execution_result = NoResult
    /\ py_files_done = 0
    /\ py_resource = None
    /\ py_uploads = <<>>
    /\ py_invoked = NoneInvokedRemote
    /\ py_result = <<>>

Init ==
    /\ RagStart(Cardinality(Calls), 1)
    /\ AppInit
    /\ FilesIdle
    /\ ImageIdle
    /\ InterpreterIdle

\* Tool calls run one after the other; answers are streamed at length.
InitSequential ==
    /\ RagStart(1, MaxStreamItems)
    /\ AppInit
    /\ FilesIdle
    /\ ImageIdle
    /\ InterpreterIdle

\* Lines 138-140: the request echo.
RequestEcho(request, file_url) ==
    << Entry("args_header", <<"## Request arguments: \n">>),
       Entry("request", <<"**Request**: ">> \o request \o <<"\n\r">>),
       Entry("file_url", <<"**File URL**: ">> \o file_url \o <<"\n\r">>) >>

\* Lines 178-180: the diagnostic of a file without content.
NotFoundEntries ==
    << Entry("response_header", <<"## Response: \n">>),
       Entry("error", <<"Error: File content not found.", "\n">>) >>

\* The prompt shown after the header of the answer.
PromptEntriesSwapped(augmented_prompt) ==
    << Entry("response_header", <<"## Response: \n">>),
       Entry("rag_header", <<"## RAG Request: \n">>),
       Entry("prompt", <<Fence, "text\n\r">> \o augmented_prompt
                           \o <<"\n\r", Fence, "\n\r">>) >>

\* Lines 195-197: the augmented prompt, then the header of the answer.
PromptEntries(augmented_prompt) ==
    << Entry("rag_header", <<"## RAG Request: \n">>),
       Entry("prompt", <<Fence, "text\n\r">> \o augmented_prompt
                           \o <<"\n\r", Fence, "\n\r">>),
       Entry("response_header", <<"## Response: \n">>) >>

\* The hit test gone wrong: every lookup is taken for a miss.
IsHitNever(cached_data) == FALSE

\* Line 169: `cached_data is not None`.
IsHit(cached_data) == cached_data # None

\* An index that loses the last vector of the batch.
index_add_partial(index, batch) ==
    index \o SubSeq(batch, 1, Len(batch) - 1)

\* Line 186: index.add(batch) on an index.
index_add(index, batch) == index \o batch

\* Lines 220-222: the chunk has a choice whose delta carries content.
HasContent(chunk) == chunk.choices /\ Truthy(chunk.content)

\* The accumulation gone wrong: the delta is put in front.
AccumulatePrepend(content, delta) == delta \o content

\* Line 224: content += delta.content.
Accumulate(content, delta) == content \o delta

\* conversation_id and file_url of a call, as a pair.
Pair(c) == <<params[c].conversation_id, params[c].file_url>>

\* The dispatcher issues tool call c: the coroutine _execute(tool_call_params)
\* is created and waits for the event loop.
Call(c) ==
    /\ pc[c] = "idle"
    /\ \A d \in Calls : d < c => pc[d] # "idle"
    /\ calls_made < MaxCalls
    /\ Cardinality({d \in Calls : pc[d] # "idle"}) < in_flight_limit
    /\ calls_made' = calls_made + 1
    /\ \E conversation_id \in ConversationIds, file_url \in FileUrls,
          request \in Requests :
            params' = [params EXCEPT ![c] =
                [conversation_id |-> conversation_id, file_url |-> file_url,
                 request |-> request]]
    /\ pc' = [pc EXCEPT ![c] = "called"]
    /\ UNCHANGED <<document_cache, running, stage, frame, result, invoked,
                   arrived, built_for, received, limits, interrupted, abandoned>>
    /\ UNCHANGED not_rag

\* Lines 133-140: the arguments are loaded and echoed to the stage.
Start(c) ==
    /\ pc[c] = "called"
    /\ running = NoCall
    /\ running' = c
    /\ stage' = [stage EXCEPT ![c] =
          @ \o RequestEcho(params[c].request, params[c].file_url)]
    /\ pc' = [pc EXCEPT ![c] = "key"]
    /\ UNCHANGED <<document_cache, params, frame, result, invoked, arrived,
                   built_for, calls_made, received, limits, interrupted, abandoned>>
    /\ UNCHANGED not_rag

\* The lookup gone wrong: the cache is asked for the file URL alone.
GetByUrl(c) ==
    /\ pc[c] = "key"
    /\ running = c
    /\ frame' = [frame EXCEPT
          ![c].cached_data = CacheGet(document_cache, params[c].file_url),
          ![c].cached_for = <<>>]
    /\ pc' = [pc EXCEPT ![c] = "got"]
    /\ UNCHANGED <<document_cache, running, params, stage, result, invoked,
                   arrived, built_for, calls_made, received, limits, interrupted, abandoned>>
    /\ UNCHANGED not_rag

\* Lines 167-168: the key is built and looked up.
Get(c) ==
    /\ pc[c] = "key"
    /\ running = c
    /\ frame' = [frame EXCEPT
          ![c].cached_data = CacheGet(document_cache, Key(c)),
          ![c].cached_for = IF Key(c) \in DOMAIN built_for
                            THEN built_for[Key(c)] ELSE <<>>]
    /\ pc' = [pc EXCEPT ![c] = "got"]
    /\ UNCHANGED <<document_cache, running, params, stage, result, invoked,
                   arrived, built_for, calls_made, received, limits, interrupted, abandoned>>
    /\ UNCHANGED not_rag

\* The hit gone wrong: the pair found is stored again.
UseCachedAndStore(c) ==
    /\ pc[c] = "got"
    /\ running = c
    /\ IsHit(frame[c].cached_data)
    /\ frame' = [frame EXCEPT ![c].index = frame[c].cached_data[1][1],
                              ![c].chunks = frame[c].cached_data[1][2]]
    /\ document_cache' =
          CacheSet(document_cache, Key(c), frame[c].cached_data[1][1],
                   frame[c].cached_data[1][2])
    /\ invoked' = [invoked EXCEPT ![c].cache_set = @ + 1]
    /\ pc' = [pc EXCEPT ![c] = "ready"]
    /\ UNCHANGED <<running, params, stage, result,
                   arrived, built_for, calls_made, received, limits, interrupted, abandoned>>
    /\ UNCHANGED not_rag

\* Lines 169-170: a hit; index, chunks = cached_data.
UseCached(c) ==
    /\ pc[c] = "got"
    /\ running = c
    /\ IsHit(frame[c].cached_data)
    /\ frame' = [frame EXCEPT ![c].index = frame[c].cached_data[1][1],
                              ![c].chunks = frame[c].cached_data[1][2]]
    /\ pc' = [pc EXCEPT ![c] = "ready"]
    /\ UNCHANGED <<document_cache, running, params, stage, result, invoked,
                   arrived, built_for, calls_made, received, limits, interrupted, abandoned>>
    /\ UNCHANGED not_rag

\* Lines 171-175: a miss; the extractor is called (synchronously: no await).
Extract(c) ==
    /\ pc[c] = "got"
    /\ running = c
    /\ ~IsHit(frame[c].cached_data)
    /\ \E text \in Texts :
          frame' = [frame EXCEPT ![c].text_content = text]
    /\ invoked' = [invoked EXCEPT ![c].extract_text = @ + 1]
    /\ pc' = [pc EXCEPT ![c] = "extracted"]
    /\ UNCHANGED <<document_cache, running, params, stage, result, arrived,
                   built_for, calls_made, received, limits, interrupted, abandoned>>
    /\ UNCHANGED not_rag

\* The empty extraction gone wrong: an exception instead of a result.
NotFoundRaises(c) ==
    /\ pc[c] = "extracted"
    /\ running = c
    /\ ~Truthy(frame[c].text_content)
    /\ pc' = [pc EXCEPT ![c] = "raised"]
    /\ running' = NoCall
    /\ UNCHANGED <<document_cache, params, stage, frame, result, invoked,
                   arrived, built_for, calls_made, received, limits, interrupted, abandoned>>
    /\ UNCHANGED not_rag

\* Lines 177-181: no text content; the error is shown and returned.
NotFound(c) ==
    /\ pc[c] = "extracted"
    /\ running = c
    /\ ~Truthy(frame[c].text_content)
    /\ stage' = [stage EXCEPT ![c] = @ \o NotFoundEntries]
    /\ result' = [result EXCEPT ![c] = <<"Error: File content not found.">>]
    /\ pc' = [pc EXCEPT ![c] = "done"]
    /\ running' = NoCall
    /\ UNCHANGED <<document_cache, params, frame, invoked, arrived, built_for, calls_made, received, limits, interrupted, abandoned>>
    /\ UNCHANGED not_rag

\* Line 183: the text is chunked.
Split(c) ==
    /\ pc[c] = "extracted"
    /\ running = c
    /\ Truthy(frame[c].text_content)
    /\ frame' = [frame EXCEPT ![c].chunks = split_text(frame[c].text_content)]
    /\ invoked' = [invoked EXCEPT ![c].split_text = @ + 1]
    /\ pc' = [pc EXCEPT ![c] = "chunked"]
    /\ UNCHANGED <<document_cache, running, params, stage, result, arrived,
                   built_for, calls_made, received, limits, interrupted, abandoned>>
    /\ UNCHANGED not_rag

\* Line 184: every chunk is embedded, as one batch.
Encode(c) ==
    /\ pc[c] = "chunked"
    /\ running = c
    /\ frame' = [frame EXCEPT ![c].embeddings = encode(frame[c].chunks)]
    /\ invoked' = [invoked EXCEPT ![c].encode_chunks = @ + 1]
    /\ pc' = [pc EXCEPT ![c] = "embedded"]
    /\ UNCHANGED <<document_cache, running, params, stage, result, arrived,
                   built_for, calls_made, received, limits, interrupted, abandoned>>
    /\ UNCHANGED not_rag

\* Lines 185-186: a fresh index takes the whole batch.  The batch of no
\* chunks is a one-dimensional empty array, which index.add cannot unpack
\* into (n, d): the call raises.
IndexAdd(c) ==
    /\ pc[c] = "embedded"
    /\ running = c
    /\ invoked' = [invoked EXCEPT ![c].index_add = @ + 1]
    /\ IF frame[c].embeddings = <<>>
       THEN /\ pc' = [pc EXCEPT ![c] = "raised"]
            /\ running' = NoCall
            /\ UNCHANGED frame
       ELSE /\ frame' = [frame EXCEPT ![c].index = index_add(<<>>, frame[c].embeddings)]
            /\ pc' = [pc EXCEPT ![c] = "indexed"]
            /\ UNCHANGED running
    /\ UNCHANGED <<document_cache, params, stage, result, arrived, built_for, calls_made, received, limits, interrupted, abandoned>>
    /\ UNCHANGED not_rag

\* Line 187: the pair is stored under the key.
Store(c) ==
    /\ pc[c] = "indexed"
    /\ running = c
    /\ document_cache' =
          CacheSet(document_cache, Key(c), frame[c].index, frame[c].chunks)
    /\ invoked' = [invoked EXCEPT ![c].cache_set = @ + 1]
    /\ built_for' = [k \in DOMAIN built_for \cup {Key(c)} |->
                        IF k = Key(c) THEN Pair(c) ELSE built_for[k]]
    /\ abandoned' = abandoned \ {Key(c)}
    /\ pc' = [pc EXCEPT ![c] = "ready"]
    /\ UNCHANGED <<running, params, stage, frame, result, arrived, calls_made,
                   received, limits, interrupted>>
    /\ UNCHANGED not_rag

\* Lines 189-191: the query is embedded and the index searched.
Search(c) ==
    /\ pc[c] = "ready"
    /\ running = c
    /\ LET query_embedding == encode(<<params[c].request>>)
           k == min(3, Len(frame[c].chunks))
       IN  \E indices \in search(frame[c].index, query_embedding[1], k) :
              frame' = [frame EXCEPT ![c].k = k, ![c].indices = indices]
    /\ invoked' = [invoked EXCEPT ![c].encode_query = @ + 1, ![c].search = @ + 1]
    /\ pc' = [pc EXCEPT ![c] = "searched"]
    /\ UNCHANGED <<document_cache, running, params, stage, result, arrived,
                   built_for, calls_made, received, limits, interrupted, abandoned>>
    /\ UNCHANGED not_rag

\* Lines 193-204: the chunks are read, the prompt is built and shown, and
\* the generation call is awaited.
Augment(c) ==
    /\ pc[c] = "searched"
    /\ running = c
    /\ IF \A i \in 1..Len(frame[c].indices) :
              InRange(frame[c].chunks, frame[c].indices[i])
       THEN LET retrieved_chunks ==
                    [i \in 1..Len(frame[c].indices) |->
                        PyIndex(frame[c].chunks, frame[c].indices[i])]
                augmented_prompt == augmentation(params[c].request, retrieved_chunks)
            IN  /\ frame' = [frame EXCEPT ![c].retrieved_chunks = retrieved_chunks,
                                          ![c].augmented_prompt = augmented_prompt]
                /\ stage' = [stage EXCEPT ![c] = @ \o PromptEntries(augmented_prompt)]
                /\ invoked' = [invoked EXCEPT ![c].generate = @ + 1]
                /\ pc' = [pc EXCEPT ![c] = "create"]
       ELSE /\ pc' = [pc EXCEPT ![c] = "raised"]
            /\ UNCHANGED <<frame, stage, invoked>>
    /\ running' = NoCall
    /\ UNCHANGED <<document_cache, params, result, arrived, built_for, calls_made, received, limits, interrupted, abandoned>>
    /\ UNCHANGED not_rag

\* Lines 204-219: the stream is opened, content = '', and the first item
\* is awaited.
OpenStream(c) ==
    /\ pc[c] = "create"
    /\ running = NoCall
    /\ frame' = [frame EXCEPT ![c].content = <<>>]
    /\ pc' = [pc EXCEPT ![c] = "stream"]
    /\ UNCHANGED <<document_cache, running, params, stage, result, invoked,
                   arrived, built_for, calls_made, received, limits, interrupted, abandoned>>
    /\ UNCHANGED not_rag

\* Line 219: the next item of the stream arrives.
StreamNext(c) ==
    /\ pc[c] = "stream"
    /\ running = NoCall
    /\ received < stream_limit
    /\ received' = received + 1
    /\ \E item \in StreamItems :
          /\ frame' = [frame EXCEPT ![c].chunk = item]
          /\ arrived' = [arrived EXCEPT ![c] = Append(@, item)]
    /\ running' = c
    /\ pc' = [pc EXCEPT ![c] = "item"]
    /\ UNCHANGED <<document_cache, params, stage, result, invoked, built_for, calls_made, limits, interrupted, abandoned>>
    /\ UNCHANGED not_rag

\* Lines 220-224: a delta with content is shown and accumulated; then the
\* next item is awaited.
StreamBody(c) ==
    /\ pc[c] = "item"
    /\ running = c
    /\ LET chunk == frame[c].chunk
       IN  IF HasContent(chunk)
           THEN /\ stage' = [stage EXCEPT ![c] = Append(@, Entry("token", chunk.content))]
                /\ frame' = [frame EXCEPT ![c].content = Accumulate(@, chunk.content)]
           ELSE UNCHANGED <<stage, frame>>
    /\ pc' = [pc EXCEPT ![c] = "stream"]
    /\ running' = NoCall
    /\ UNCHANGED <<document_cache, params, result, invoked, arrived, built_for, calls_made, received, limits, interrupted, abandoned>>
    /\ UNCHANGED not_rag

\* Lines 219, 226: the stream ends and the content is returned.
StreamEnd(c) ==
    /\ pc[c] = "stream"
    /\ running = NoCall
    /\ result' = [result EXCEPT ![c] = frame[c].content]
    /\ pc' = [pc EXCEPT ![c] = "done"]
    /\ UNCHANGED <<document_cache, running, params, stage, frame, invoked,
                   arrived, built_for, calls_made, received, limits, interrupted, abandoned>>
    /\ UNCHANGED not_rag

\* What ended the generation of a call early, and its stage at that time.
Interruption(why, shown) == Some([why |-> why, stage |-> shown])

\* The call awaits the generation backend: the create call of line 204 or
\* the next item of the stream at line 219.
AwaitsGeneration(c) == pc[c] \in {"create", "stream"} /\ running # c

\* The keys whose entry is left behind when the generation of call c ends
\* early: the key of the entry the call stored, while the cache holds it.
Abandon(c) ==
    IF invoked[c].cache_set > 0 /\ Key(c) \in DOMAIN document_cache
    THEN abandoned \cup {Key(c)}
    ELSE abandoned

\* The cancellation gone wrong: the loop swallows it and goes on reading.
CancelSwallowed(c) ==
    /\ AwaitsGeneration(c)
    /\ interrupted[c] = None
    /\ abandoned' = Abandon(c)
    /\ interrupted' = [interrupted EXCEPT ![c] = Interruption("cancelled", stage[c])]
    /\ UNCHANGED <<document_cache, running, pc, params, stage, frame, result,
                   invoked, arrived, built_for, calls_made, received, limits>>
    /\ UNCHANGED not_rag

\* Lines 204, 219: the surrounding turn is cancelled while the call awaits
\* the generation backend.  asyncio raises CancelledError at the await; no
\* try, except or finally encloses it, so it leaves _execute at once.
Cancel(c) ==
    /\ AwaitsGeneration(c)
    /\ interrupted[c] = None
    /\ abandoned' = Abandon(c)
    /\ interrupted' = [interrupted EXCEPT ![c] = Interruption("cancelled", stage[c])]
    /\ pc' = [pc EXCEPT ![c] = "cancelled"]
    /\ UNCHANGED <<document_cache, running, params, stage, frame, result,
                   invoked, arrived, built_for, calls_made, received, limits>>
    /\ UNCHANGED not_rag

\* The failure gone wrong: the entry of the call's key is dropped with it.
CreateFailsDropsEntry(c) ==
    /\ pc[c] = "create"
    /\ running = NoCall
    /\ interrupted[c] = None
    /\ abandoned' = Abandon(c)
    /\ interrupted' = [interrupted EXCEPT ![c] = Interruption("failed", stage[c])]
    /\ pc' = [pc EXCEPT ![c] = "raised"]
    /\ document_cache' = CacheEvict(document_cache, Key(c))
    /\ UNCHANGED <<running, params, stage, frame, result,
                   invoked, arrived, built_for, calls_made, received, limits>>
    /\ UNCHANGED not_rag

\* Line 204: the generation call fails (backend unreachable, error status);
\* the exception leaves _execute.
CreateFails(c) ==
    /\ pc[c] = "create"
    /\ running = NoCall
    /\ interrupted[c] = None
    /\ abandoned' = Abandon(c)
    /\ interrupted' = [interrupted EXCEPT ![c] = Interruption("failed", stage[c])]
    /\ pc' = [pc EXCEPT ![c] = "raised"]
    /\ UNCHANGED <<document_cache, running, params, stage, frame, result,
                   invoked, arrived, built_for, calls_made, received, limits>>
    /\ UNCHANGED not_rag

\* The stream failure gone wrong: the text read so far is returned.
StreamFailsReturnsPartial(c) ==
    /\ pc[c] = "stream"
    /\ running = NoCall
    /\ interrupted[c] = None
    /\ abandoned' = Abandon(c)
    /\ interrupted' = [interrupted EXCEPT ![c] = Interruption("failed", stage[c])]
    /\ result' = [result EXCEPT ![c] = frame[c].content]
    /\ pc' = [pc EXCEPT ![c] = "done"]
    /\ UNCHANGED <<document_cache, running, params, stage, frame,
                   invoked, arrived, built_for, calls_made, received, limits>>
    /\ UNCHANGED not_rag

\* Line 219: the stream fails while the next item is awaited (the connection
\* drops, an error event arrives); the exception leaves _execute.
StreamFails(c) ==
    /\ pc[c] = "stream"
    /\ running = NoCall
    /\ interrupted[c] = None
    /\ abandoned' = Abandon(c)
    /\ interrupted' = [interrupted EXCEPT ![c] = Interruption("failed", stage[c])]
    /\ pc' = [pc EXCEPT ![c] = "raised"]
    /\ UNCHANGED <<document_cache, running, params, stage, frame, result,
                   invoked, arrived, built_for, calls_made, received, limits>>
    /\ UNCHANGED not_rag

\* The call has returned or raised: the dispatcher discards its context
\* (ToolCallParams, stage) and the coroutine's frame is gone.
Discard(c) ==
    /\ pc[c] \in {"done", "raised", "cancelled"}
    /\ pc' = [pc EXCEPT ![c] = "idle"]
    /\ params' = [params EXCEPT ![c] = NoParams]
    /\ stage' = [stage EXCEPT ![c] = <<>>]
    /\ frame' = [frame EXCEPT ![c] = NewFrame]
    /\ result' = [result EXCEPT ![c] = <<>>]
    /\ invoked' = [invoked EXCEPT ![c] = NoneInvoked]
    /\ arrived' = [arrived EXCEPT ![c] = <<>>]
    /\ interrupted' = [interrupted EXCEPT ![c] = None]
    /\ UNCHANGED <<document_cache, running, built_for, calls_made,
                   received, limits, abandoned>>
    /\ UNCHANGED not_rag

\* The cache's autoclean drops the entry of a key.
Evict(key) ==
    /\ key \in DOMAIN document_cache
    /\ document_cache' = CacheEvict(document_cache, key)
    /\ abandoned' = abandoned \ {key}
    /\ built_for' = [k \in DOMAIN built_for \ {key} |-> built_for[k]]
    /\ UNCHANGED <<running, pc, params, stage, frame, result, invoked, arrived,
                   calls_made, received, limits, interrupted>>
    /\ UNCHANGED not_rag

\* One step of call c.
Step(c) ==
    \/ Start(c)
    \/ Get(c)
    \/ UseCached(c)
    \/ Extract(c)
    \/ NotFound(c)
    \/ Split(c)
    \/ Encode(c)
    \/ IndexAdd(c)
    \/ Store(c)
    \/ Search(c)
    \/ Augment(c)
    \/ OpenStream(c)
    \/ StreamNext(c)
    \/ StreamBody(c)
    \/ StreamEnd(c)

\* The generation of call c ends early.
Fault(c) ==
    \/ Cancel(c)
    \/ CreateFails(c)
    \/ StreamFails(c)

Next ==
    \/ \E c \in Calls : Call(c)
    \/ \E c \in Calls : Step(c)
    \/ \E c \in Calls : Discard(c)
    \/ \E key \in AllKeys : Evict(key)

Spec == Init /\ [][Next]_vars

NextSequential ==
    \/ Next
    \/ \E c \in Calls : Fault(c)

SpecSequential == InitSequential /\ [][NextSequential]_vars

(* -------------------- GeneralPurposeAgentApplication ------------------- *)

\* A tool of the tool set: its name and, for RagTool, the cache it holds
\* (caches are numbered in the order DocumentCache.create() made them).
Tool(name, cache) == [name |-> name, cache |-> cache]

\* What the code interpreter's MCP server may list as its tools.
RemoteToolLists == { <<"execute_code", "install_package">>, <<"install_package">> }

\* What the web search MCP server may list as its tools.
SearchToolLists == { <<>>, <<"search">> }

\* The names of a list hold the name.
Has(names, name) == \E i \in 1..Len(names) : names[i] = name

\* The class of the tool of a name in the tool set.
ToolClass(name) ==
    CASE name = "image_generation_tool" -> "ImageGenerationTool"
      [] name = "file_content_extraction_tool" -> "FileContentExtractionTool"
      [] name = "rag_tool" -> "RagTool"
      [] name = "execute_code" -> "PythonCodeInterpreterTool"
      [] OTHER -> "MCPTool"

\* Reading the `parameters` property of a tool: a JSON Schema object, or the
\* exception the property raises.  PythonCodeInterpreterTool.parameters is
\* `raise NotImplementedError()`.
parameters(tool) ==
    IF ToolClass(tool.name) = "PythonCodeInterpreterTool"
    THEN [raises |-> "NotImplementedError", type |-> ""]
    ELSE [raises |-> "", type |-> "object"]

\* rag_tool.py lines 111-120: the dict RagTool.parameters returns, as the
\* type, the names its `properties` declares and its `required` list.
RagToolParameters ==
    [type |-> "object", properties |-> {"request"},
     required |-> <<"request", "file_url">>]

\* The construction gone wrong: without the configured tool the list goes
\* on without a code interpreter.
PyInterpreterSkips(r) ==
    /\ req_pc[r] = "py_interpreter"
    /\ \E remote \in RemoteToolLists :
          /\ req_tools' = [req_tools EXCEPT ![r] =
                IF Has(remote, "execute_code")
                THEN Append(@, Tool("execute_code", 0)) ELSE @]
          /\ req_pc' = [req_pc EXCEPT ![r] = "mcp_tools"]
    /\ UNCHANGED <<tools, req_agent, caches_created, installs, replaced>>
    /\ UNCHANGED not_app

\* Lines 105-106, 69-80: a request arrives; with self.tools empty it enters
\* _create_tools, builds the first three tools (and a DocumentCache) and
\* awaits PythonCodeInterpreterTool.create.  Otherwise (lines 108-112) its
\* agent is built on self.tools.
Check(r) ==
    /\ req_pc[r] = "idle"
    /\ \A q \in 1..(r - 1) : req_pc[q] # "idle"
    /\ IF tools = <<>>
       THEN /\ req_tools' = [req_tools EXCEPT ![r] =
                  << Tool("image_generation_tool", 0),
                     Tool("file_content_extraction_tool", 0),
                     Tool("rag_tool", caches_created + 1) >>]
            /\ caches_created' = caches_created + 1
            /\ req_pc' = [req_pc EXCEPT ![r] = "py_interpreter"]
            /\ UNCHANGED req_agent
       ELSE /\ req_agent' = [req_agent EXCEPT ![r] = tools]
            /\ req_pc' = [req_pc EXCEPT ![r] = "handle"]
            /\ UNCHANGED <<req_tools, caches_created>>
    /\ UNCHANGED <<tools, installs, replaced>>
    /\ UNCHANGED not_app

\* Lines 80-88 with PythonCodeInterpreterTool.create and __init__: the remote
\* tools are listed; without the configured tool the constructor raises and
\* the request fails; with it the tool joins the list and _get_mcp_tools is
\* awaited.
PyInterpreter(r) ==
    /\ req_pc[r] = "py_interpreter"
    /\ \E remote \in RemoteToolLists :
          IF Has(remote, "execute_code")
          THEN /\ req_tools' = [req_tools EXCEPT ![r] =
                     Append(@, Tool("execute_code", 0))]
               /\ req_pc' = [req_pc EXCEPT ![r] = "mcp_tools"]
          ELSE /\ req_pc' = [req_pc EXCEPT ![r] = "failed"]
               /\ UNCHANGED req_tools
    /\ UNCHANGED <<tools, req_agent, caches_created, installs, replaced>>
    /\ UNCHANGED not_app

\* Lines 88-89, 106-118 with _get_mcp_tools: the search tools extend the
\* list, _create_tools returns it, self.tools takes it, and the agent is
\* built on self.tools.
Install(r) ==
    /\ req_pc[r] = "mcp_tools"
    /\ \E remote \in SearchToolLists :
          LET created == req_tools[r] \o [i \in 1..Len(remote) |-> Tool(remote[i], 0)]
          IN  /\ req_tools' = [req_tools EXCEPT ![r] = created]
              /\ tools' = created
              /\ req_agent' = [req_agent EXCEPT ![r] = created]
    /\ installs' = installs + 1
    /\ replaced' = (replaced \/ tools # <<>>)
    /\ req_pc' = [req_pc EXCEPT ![r] = "handle"]
    /\ UNCHANGED caches_created
    /\ UNCHANGED not_app

\* Lines 35-55: _get_mcp_tools fails; the exception leaves chat_completion.
McpFails(r) ==
    /\ req_pc[r] = "mcp_tools"
    /\ req_pc' = [req_pc EXCEPT ![r] = "failed"]
    /\ UNCHANGED <<tools, req_tools, req_agent, caches_created, installs, replaced>>
    /\ UNCHANGED not_app

\* Lines 109-118: handle_request completes.
Handled(r) ==
    /\ req_pc[r] = "handle"
    /\ req_pc' = [req_pc EXCEPT ![r] = "done"]
    /\ UNCHANGED <<tools, req_tools, req_agent, caches_created, installs, replaced>>
    /\ UNCHANGED not_app

AppNext ==
    \/ \E r \in ChatRequests : Check(r)
    \/ \E r \in ChatRequests : PyInterpreter(r)
    \/ \E r \in ChatRequests : Install(r)
    \/ \E r \in ChatRequests : McpFails(r)
    \/ \E r \in ChatRequests : Handled(r)

SpecApp == Init /\ [][AppNext]_vars

(* ---------------------- FileContentExtractionTool ---------------------- *)

\* Line 73: page_size = 10_000 characters.
page_size == 10000

\* len('Error: File content not found.')
not_found_len == 30

\* The file URL of the call.
ExtractedFileUrl == "files/report.txt"

\* The page numbers a caller may pass: integers around the valid range, or
\* a JSON string where the integer should be.
PageValues ==
    {JsonInteger(n) : n \in -1..MaxPage} \cup {JsonString("2")}

\* The arguments a caller may pass: file_url given or not, page given or not.
FileArguments ==
    LET url == [k \in {"file_url"} |-> JsonString(ExtractedFileUrl)]
        pages == {[k \in {"page"} |-> v] : v \in PageValues} \cup { << >> }
    IN  {pg : pg \in pages} \cup {url @@ pg : pg \in pages}

\* The lengths of the texts the extractor may return: nothing, short texts,
\* and texts of two and three pages, full or not.
TextLengths ==
    {0, 1, page_size, page_size + 1, 2 * page_size,
     2 * page_size + page_size \div 2, 3 * page_size}

\* content[start:end] of Python for 0 <= start <= end, on a text of the length.
Slice(len, start, end) == Chars(min(start, len), min(end, len))

\* The page count gone wrong: the division rounds down.
total_pages_floor(len) == len \div page_size

\* Line 74: total_pages = (len(content) + page_size - 1) // page_size
total_pages(len) == (len + page_size - 1) \div page_size

\* Line 79: the error of a page beyond the last.
PageDoesNotExist(page, total) ==
    << Lit("Error: Page "), Num(page), Lit(" does not exist. Total pages: "),
       Num(total) >>

\* Line 85: the page and its marker.
PageWithMarker(page_content, page, total) ==
    << page_content, Lit("\n\n**Page #"), Num(page), Lit(". Total pages: "),
       Num(total), Lit("**") >>

\* The tool is called with some arguments.
InitFiles ==
    /\ RagStart(Cardinality(Calls), 1)
    /\ AppInit
    /\ ImageIdle
    /\ InterpreterIdle
    /\ fce_pc = "called"
    /\ fce_arguments \in FileArguments
    /\ fce_frame = NewFileFrame
    /\ fce_stage = <<>>
    /\ fce_result = <<>>

\* arguments.get("page", 1)
GetPage(arguments) ==
    IF "page" \in DOMAIN arguments THEN arguments["page"] ELSE JsonInteger(1)

\* Lines 52-62: the arguments are loaded and echoed.  arguments["file_url"]
\* raises KeyError without the field; `page > 1` raises TypeError on a page
\* that is a string, after the first two lines were shown.
FceStart ==
    /\ fce_pc = "called"
    /\ IF "file_url" \notin DOMAIN fce_arguments
       THEN /\ fce_pc' = "raised"
            /\ UNCHANGED <<fce_frame, fce_stage>>
       ELSE LET file_url == fce_arguments["file_url"].s
                page == GetPage(fce_arguments)
                echo == << Entry("args_header", <<Lit("## Request arguments: \n")>>),
                           Entry("file_url", <<Lit("**File URL**: "), Lit(file_url),
                                               Lit("\n\r")>>) >>
            IN  /\ fce_frame' = [fce_frame EXCEPT !.file_url = file_url, !.page = page]
                /\ IF page.type # "integer"
                   THEN /\ fce_stage' = fce_stage \o echo
                        /\ fce_pc' = "raised"
                   ELSE /\ fce_stage' = fce_stage \o echo
                              \o (IF page.n > 1
                                  THEN <<Entry("page", <<Lit("**Page**: "), Num(page.n),
                                                         Lit("\n\r")>>)>>
                                  ELSE <<>>)
                              \o <<Entry("response_header", <<Lit("## Response: \n")>>)>>
                        /\ fce_pc' = "extract"
    /\ UNCHANGED <<fce_arguments, fce_result>>
    /\ UNCHANGED not_file

\* Lines 64-70: the extractor is called; without content the error text
\* takes its place.
FceExtract ==
    /\ fce_pc = "extract"
    /\ \E len \in TextLengths :
          fce_frame' = [fce_frame EXCEPT
              !.extracted_len = len,
              !.content = IF len = 0 THEN <<Lit("Error: File content not found.")>>
                          ELSE <<Chars(0, len)>>,
              !.content_len = IF len = 0 THEN not_found_len ELSE len]
    /\ fce_pc' = "paginate"
    /\ UNCHANGED <<fce_arguments, fce_stage, fce_result>>
    /\ UNCHANGED not_file

\* The cut gone wrong: a page begins with the last character of the page
\* before it.
page_content_overlapping(len, page) ==
    LET start_index == (page - 1) * (page_size - 1)
        end_index == start_index + page_size
    IN  Slice(len, start_index, end_index)

\* Lines 81-83: the characters of a page of a content of len characters.
page_content(len, page) ==
    LET start_index == (page - 1) * page_size
        end_index == start_index + page_size
    IN  Slice(len, start_index, end_index)

\* Lines 72-85: a content of more than page_size characters is cut to the
\* page asked for; a page below 1 becomes page 1, a page beyond the last
\* returns the error at once.
FcePaginate ==
    /\ fce_pc = "paginate"
    /\ LET len == fce_frame.content_len
           total == total_pages(len)
           asked == fce_frame.page.n
           page == IF asked < 1 THEN 1 ELSE asked
       IN  IF len > page_size
           THEN IF asked >= 1 /\ asked > total
                THEN /\ fce_result' = PageDoesNotExist(asked, total)
                     /\ fce_frame' = [fce_frame EXCEPT !.total_pages = total]
                     /\ fce_pc' = "done"
                ELSE /\ fce_frame' = [fce_frame EXCEPT
                          !.total_pages = total,
                          !.page = JsonInteger(page),
                          !.content = PageWithMarker(page_content(len, page),
                                                     page, total)]
                     /\ fce_pc' = "show"
                     /\ UNCHANGED fce_result
           ELSE /\ fce_pc' = "show"
                /\ UNCHANGED <<fce_frame, fce_result>>
    /\ UNCHANGED <<fce_arguments, fce_stage>>
    /\ UNCHANGED not_file

\* Lines 87-89: the content is shown on the stage and returned.
FceShow ==
    /\ fce_pc = "show"
    /\ fce_stage' = Append(fce_stage,
          Entry("content", <<Lit(Fence), Lit("text\n\r")>> \o fce_frame.content
                               \o <<Lit("\n\r"), Lit(Fence), Lit("\n\r")>>))
    /\ fce_result' = fce_frame.content
    /\ fce_pc' = "done"
    /\ UNCHANGED <<fce_arguments, fce_frame>>
    /\ UNCHANGED not_file

FilesNext ==
    \/ FceStart
    \/ FceExtract
    \/ FcePaginate
    \/ FceShow

SpecFiles == InitFiles /\ [][FilesNext]_vars

(* ------------------------- ImageGenerationTool ------------------------- *)

\* MIME types of the attachments a deployment may return.
AttachmentTypes == {"image/png", "image/jpeg", "image/gif", "application/pdf"}

\* The attachment at a position of a message: its type and its URL.
Attachment(type, position) ==
    [type |-> type, url |-> <<"files/", "attachment", position>>]

\* The attachment lists of up to MaxAttachments attachments.
AttachmentLists ==
    UNION { { [i \in 1..n |-> Attachment(types[i], i)] :
                types \in [1..n -> AttachmentTypes] } : n \in 0..MaxAttachments }

\* The messages the parent's _execute may return.
Messages ==
    {Message(TRUE, a, c) : a \in AttachmentLists, c \in {<<>>, <<"text">>}}
        \cup {Message(FALSE, <<>>, c) : c \in {<<>>, <<"text">>}}

\* The filter gone wrong: every attachment passes.
IsImageAny(type) == TRUE

\* Line 30: attachment.type in ("image/png", "image/jpeg")
IsImage(type) == type \in {"image/png", "image/jpeg"}

\* Line 31: the inline markdown image reference.
ImageReference(url) == <<"\n\r![image](">> \o url \o <<")\n\r">>

\* Line 34: the sentence that stands for the content of a message without
\* text.
Confirmation ==
    <<"The image has been successfully generated according to request and shown to user!">>

\* The image tool is called.
InitImage ==
    /\ RagStart(Cardinality(Calls), 1)
    /\ AppInit
    /\ FilesIdle
    /\ InterpreterIdle
    /\ img_pc = "called"
    /\ img_msg = NoMessage
    /\ img_done = 0
    /\ img_choice = <<>>
    /\ img_result = NoMessage

\* Line 26: the parent's _execute returns the deployment's message (its
\* attachments went to the stage only).
ImgSuperExecute ==
    /\ img_pc = "called"
    /\ img_msg' \in Messages
    /\ img_pc' = "attachments"
    /\ UNCHANGED <<img_done, img_choice, img_result>>
    /\ UNCHANGED not_image

\* Lines 28-31: one turn of the loop; an image attachment is appended to
\* the choice.
ImgAppend ==
    /\ img_pc = "attachments"
    /\ img_msg.has_custom_content
    /\ img_done < Len(img_msg.attachments)
    /\ LET attachment == img_msg.attachments[img_done + 1]
       IN  img_choice' = IF IsImage(attachment.type)
                         THEN Append(img_choice, ImageReference(attachment.url))
                         ELSE img_choice
    /\ img_done' = img_done + 1
    /\ UNCHANGED <<img_pc, img_msg, img_result>>
    /\ UNCHANGED not_image

\* Lines 28, 33-36: after the loop a message with attachments and without
\* content gets the confirmation sentence; the message is returned.
ImgReturn ==
    /\ img_pc = "attachments"
    /\ ~img_msg.has_custom_content \/ img_done = Len(img_msg.attachments)
    /\ img_result' =
          IF img_msg.has_custom_content /\ img_msg.attachments # <<>>
             /\ ~Truthy(img_msg.content)
          THEN [img_msg EXCEPT !.content = Confirmation]
          ELSE img_msg
    /\ img_pc' = "done"
    /\ UNCHANGED <<img_msg, img_done, img_choice>>
    /\ UNCHANGED not_image

ImageNext ==
    \/ ImgSuperExecute
    \/ ImgAppend
    \/ ImgReturn

SpecImage == InitImage /\ [][ImageNext]_vars

(* ---------------------- PythonCodeInterpreterTool ---------------------- *)

\* Line 170: the length an output entry is cut to.
output_limit == 200

\* The code a caller passes.
PyCode == "print(1)"

\* The arguments of a call: with or without code, and with no session, the
\* session 0 or the session 7.
PyArguments ==
    { [has_code |-> h, code |-> PyCode, session_id |-> sid] :
        h \in BOOLEAN, sid \in {NoSession, Session(0), Session(7)} }

\* A file of an execution result.
FileRef(name, mime_type) ==
    [name |-> name, mime_type |-> mime_type, uri |-> <<"resource://", name>>]

\* The files a run may generate.
GeneratedFiles ==
    { FileRef("plot.png", "image/png"), FileRef("data.json", "application/json"),
      FileRef("notes.txt", "text/plain") }

FileLists == UNION { [1..n -> GeneratedFiles] : n \in 0..MaxFiles }

\* The lengths of the output entries of a run: an entry is its characters
\* from 0 to its length.
OutputLengths == {0, 200, 201, 450}

OutputLists ==
    UNION { [1..n -> {Chars(0, len) : len \in OutputLengths}] : n \in 0..MaxOutputs }

\* What the remote execute_code may answer.
RemoteResults ==
    { ExecutionResult(files, output, <<>>) : files \in FileLists, output \in OutputLists }

\* Line 143: _ExecutionResult.model_validate(execution_result_json) builds a
\* model object of its own from the dict.
model_validate(json) == ExecutionResult(json.files, json.output, json.instructions)

\* model_dump_json(indent=...): the JSON text of the model object.
model_dump_json(model, indent) == [json |-> model, indent |-> indent]

\* The session line gone wrong: it never shows the session.
SessionLineAlwaysNew(session_id) ==
    Entry("session", <<Lit("New session will be created\n\r")>>)

\* Lines 136-139: the session line.
SessionLine(session_id) ==
    IF session_id.present /\ session_id.n # 0
    THEN Entry("session", <<Lit("**session_id**: "), Num(session_id.n), Lit("\n\r")>>)
    ELSE Entry("session", <<Lit("New session will be created\n\r")>>)

\* Lines 134-140: the echo of the arguments.
ArgumentsEcho(code, session_id) ==
    << Entry("args_header", <<Lit("## Request arguments: \n")>>),
       Entry("code", <<Lit("<fence>python\n\r"), Lit(code), Lit("\n\r<fence>\n\r")>>),
       SessionLine(session_id),
       Entry("response_header", <<Lit("## Response: \n")>>) >>

\* Line 154: mime_type.startswith('text/') or mime_type in
\* ['application/json', 'application/xml']
IsTextual(mime_type) ==
    mime_type \in {"text/plain", "application/json", "application/xml"}

\* Lines 154-157: the bytes to store: the resource encoded as UTF-8, or the
\* bytes its base64 text stands for.
FileData(mime_type, resource) ==
    IF IsTextual(mime_type)
    THEN [bytes |-> "utf-8 encoded", of |-> resource]
    ELSE [bytes |-> "base64 decoded", of |-> resource]

\* Line 149: dial_client.my_appdata_home()
files_home == "appdata-home"

\* Line 158: f"files/{(files_home / name).as_posix()}"
UploadUrl(name) == <<"files/", files_home, "/", name>>

\* Lines 161-165: the attachment of a file.
FileAttachment(file) ==
    [url |-> UploadUrl(file.name), type |-> file.mime_type, title |-> file.name]

\* Line 168: the instruction added to the dict.
Instructions ==
    <<"Generates files have been provided to user, DON'T include links to them in response!">>

\* The cut gone wrong: the entry is kept whole.
CutNothing(output) == output

\* Line 170: output[:200]
Cut(output) == Chars(output.from, min(output.to, output.from + output_limit))

\* The interpreter tool is called.
InitInterpreter ==
    /\ RagStart(Cardinality(Calls), 1)
    /\ AppInit
    /\ FilesIdle
    /\ ImageIdle
    /\ py_pc = "called"
    /\ py_arguments \in PyArguments
    /\ py_stage = <<>>
    /\ py_stage_attachments = <<>>
    /\ py_choice_attachments = <<>>
    /\ py_execution_result_json = NoResult
    /\ py_execution_result = NoResult
    /\ py_files_done = 0
    /\ py_resource = None
    /\ py_uploads = <<>>
    /\ py_invoked = NoneInvokedRemote
    /\ py_result = <<>>

\* Lines 130-140: arguments["code"] raises KeyError without code; otherwise
\* the arguments are echoed to the stage.
PyStart ==
    /\ py_pc = "called"
    /\ IF py_arguments.has_code
       THEN /\ py_stage' = ArgumentsEcho(py_arguments.code, py_arguments.session_id)
            /\ py_pc' = "call_tool"
       ELSE /\ py_pc' = "raised"
            /\ UNCHANGED py_stage
    /\ UNCHANGED <<py_arguments, py_stage_attachments, py_choice_attachments,
                   py_execution_result_json, py_execution_result, py_files_done,
                   py_resource, py_uploads, py_invoked, py_result>>
    /\ UNCHANGED not_py

\* Line 141: call_tool is issued and the call waits for the answer.
PyCallTool ==
    /\ py_pc = "call_tool"
    /\ py_invoked' = [py_invoked EXCEPT !.call_tool = @ + 1]
    /\ py_pc' = "awaiting_tool"
    /\ UNCHANGED <<py_arguments, py_stage, py_stage_attachments,
                   py_choice_attachments, py_execution_result_json,
                   py_execution_result, py_files_done, py_resource, py_uploads,
                   py_result>>
    /\ UNCHANGED not_py

\* Lines 141-149: the answer arrives, is parsed and validated; with files
\* the loop over them begins.
PyToolReturns ==
    /\ py_pc = "awaiting_tool"
    /\ \E content \in RemoteResults :
          /\ py_execution_result_json' = content
          /\ py_execution_result' = model_validate(content)
          /\ py_pc' = IF content.files # <<>> THEN "files" ELSE "output"
    /\ UNCHANGED <<py_arguments, py_stage, py_stage_attachments,
                   py_choice_attachments, py_files_done, py_resource,
                   py_uploads, py_invoked, py_result>>
    /\ UNCHANGED not_py

\* Lines 150-153: the next file's resource is fetched from the remote.
PyGetResource ==
    /\ py_pc = "files"
    /\ py_files_done < Len(py_execution_result.files)
    /\ LET file == py_execution_result.files[py_files_done + 1]
       IN  py_resource' = Some(file.uri)
    /\ py_invoked' = [py_invoked EXCEPT !.get_resource = @ + 1]
    /\ py_pc' = "upload"
    /\ UNCHANGED <<py_arguments, py_stage, py_stage_attachments,
                   py_choice_attachments, py_execution_result_json,
                   py_execution_result, py_files_done, py_uploads, py_result>>
    /\ UNCHANGED not_py

\* Lines 154-160: the resource is decoded and uploaded.
PyUpload ==
    /\ py_pc = "upload"
    /\ LET file == py_execution_result.files[py_files_done + 1]
       IN  py_uploads' = Append(py_uploads,
               [url |-> UploadUrl(file.name),
                file |-> FileData(file.mime_type, py_resource[1])])
    /\ py_invoked' = [py_invoked EXCEPT !.upload = @ + 1]
    /\ py_pc' = "attach"
    /\ UNCHANGED <<py_arguments, py_stage, py_stage_attachments,
                   py_choice_attachments, py_execution_result_json,
                   py_execution_result, py_files_done, py_resource, py_result>>
    /\ UNCHANGED not_py

\* The registration gone wrong: the choice gets no attachment.
PyAttachStageOnly ==
    /\ py_pc = "attach"
    /\ LET attachment == FileAttachment(py_execution_result.files[py_files_done + 1])
       IN  py_stage_attachments' = Append(py_stage_attachments, attachment)
    /\ py_files_done' = py_files_done + 1
    /\ py_resource' = None
    /\ py_pc' = "files"
    /\ UNCHANGED <<py_arguments, py_stage, py_choice_attachments,
                   py_execution_result_json, py_execution_result, py_uploads,
                   py_invoked, py_result>>
    /\ UNCHANGED not_py

\* Lines 161-167: the attachment is added to the stage and to the choice.
PyAttach ==
    /\ py_pc = "attach"
    /\ LET attachment == FileAttachment(py_execution_result.files[py_files_done + 1])
       IN  /\ py_stage_attachments' = Append(py_stage_attachments, attachment)
           /\ py_choice_attachments' = Append(py_choice_attachments, attachment)
    /\ py_files_done' = py_files_done + 1
    /\ py_resource' = None
    /\ py_pc' = "files"
    /\ UNCHANGED <<py_arguments, py_stage, py_execution_result_json,
                   py_execution_result, py_uploads, py_invoked, py_result>>
    /\ UNCHANGED not_py

\* Line 168: after the loop the instruction is added to the dict.
PyInstructions ==
    /\ py_pc = "files"
    /\ py_files_done = Len(py_execution_result.files)
    /\ py_execution_result_json' =
          [py_execution_result_json EXCEPT !.instructions = Instructions]
    /\ py_pc' = "output"
    /\ UNCHANGED <<py_arguments, py_stage, py_stage_attachments,
                   py_choice_attachments, py_execution_result, py_files_done,
                   py_resource, py_uploads, py_invoked, py_result>>
    /\ UNCHANGED not_py

\* Lines 169-173: the outputs of the model object are cut, the object is
\* echoed to the stage and returned as JSON text.
PyReturn ==
    /\ py_pc = "output"
    /\ LET output == py_execution_result.output
           execution_result ==
               IF output # <<>>
               THEN [py_execution_result EXCEPT
                        !.output = [i \in 1..Len(output) |-> Cut(output[i])]]
               ELSE py_execution_result
       IN  /\ py_execution_result' = execution_result
           /\ py_stage' = Append(py_stage,
                  Entry("result", model_dump_json(execution_result, 2)))
           /\ py_result' = model_dump_json(execution_result, 0)
    /\ py_pc' = "done"
    /\ UNCHANGED <<py_arguments, py_stage_attachments, py_choice_attachments,
                   py_execution_result_json, py_files_done, py_resource,
                   py_uploads, py_invoked>>
    /\ UNCHANGED not_py

\* Lines 141, 153, 160: call_tool, get_resource or the upload raises; no
\* handler is in _execute, so the exception leaves the call.
PyRaises ==
    /\ \/ py_pc = "awaiting_tool"
       \/ py_pc = "upload"
       \/ py_pc = "files" /\ py_files_done < Len(py_execution_result.files)
    /\ py_pc' = "raised"
    /\ UNCHANGED <<py_arguments, py_stage, py_stage_attachments,
                   py_choice_attachments, py_execution_result_json,
                   py_execution_result, py_files_done, py_resource, py_uploads,
                   py_invoked, py_result>>
    /\ UNCHANGED not_py

InterpreterNext ==
    \/ PyStart
    \/ PyCallTool
    \/ PyToolReturns
    \/ PyGetResource
    \/ PyUpload
    \/ PyAttach
    \/ PyInstructions
    \/ PyReturn
    \/ PyRaises

SpecInterpreter == InitInterpreter /\ [][InterpreterNext]_vars

(* ------------------------------ claims --------------------------------- *)

\* The call has done its lookup (line 168).
LookedUp(c) == pc[c] \notin {"idle", "called", "key"}

\* The lookup of the call found an entry.
FoundEntry(c) == LookedUp(c) /\ frame[c].cached_data # None

\* The call stored an entry (line 187).
Stored(c) == invoked[c].cache_set > 0

\* The call has called the extractor, which found no content.
ExtractedNothing(c) ==
    invoked[c].extract_text > 0 /\ ~Truthy(frame[c].text_content)

\* The call is between its start and its end.
InFlight(c) == pc[c] \notin {"idle", "done", "raised"}

\* The call is between its lookup and its store, on a miss.
Building(c) ==
    \/ pc[c] = "got" /\ frame[c].cached_data = None
    \/ pc[c] \in {"extracted", "chunked", "embedded", "indexed"}

\* Extractor, splitter and chunk embedder invocations of two calls together.
BuildWork(c1, c2) ==
    << invoked[c1].extract_text + invoked[c2].extract_text,
       invoked[c1].split_text + invoked[c2].split_text,
       invoked[c1].encode_chunks + invoked[c2].encode_chunks >>

\* C1, as stated: two finished calls of one conversation on one file_url
\* have together extracted, chunked and embedded exactly once.
C1_ExactlyOnce ==
    \A c1, c2 \in Calls :
        (c1 # c2 /\ pc[c1] = "done" /\ pc[c2] = "done" /\ Pair(c1) = Pair(c2))
            => BuildWork(c1, c2) = <<1, 1, 1>>

\* C1, amended: of two calls of one conversation on one file_url, where one
\* stored the entry and the other's lookup found an entry, the other invoked
\* neither extractor, splitter nor chunk embedder, and the two together
\* invoked each exactly once.
C1_OnceWhileCached ==
    \A c1, c2 \in Calls :
        (c1 # c2 /\ Pair(c1) = Pair(c2) /\ Stored(c1) /\ FoundEntry(c2))
            => /\ invoked[c2].extract_text = 0
               /\ invoked[c2].split_text = 0
               /\ invoked[c2].encode_chunks = 0
               /\ BuildWork(c1, c2) = <<1, 1, 1>>

C1_Witness ==
    \E c1, c2 \in Calls :
        /\ c1 # c2 /\ Pair(c1) = Pair(c2)
        /\ Stored(c1) /\ FoundEntry(c2)
        /\ pc[c1] = "done" /\ pc[c2] = "done"

\* C2, as stated: of the calls in flight together for one key that all
\* started on a miss, at most one stores the key.
C2_NeverSetTwice ==
    \A c1, c2 \in Calls :
        (/\ c1 # c2 /\ InFlight(c1) /\ InFlight(c2) /\ Key(c1) = Key(c2)
         /\ LookedUp(c1) /\ frame[c1].cached_data = None
         /\ LookedUp(c2) /\ frame[c2].cached_data = None)
            => ~(Stored(c1) /\ Stored(c2))

\* C2, amended: document_cache.set runs for a key only while the cache holds
\* no entry for it, so no build overwrites the entry of another (a key is
\* set again only after its entry was evicted).
C2_SetOnlyWhenAbsent ==
    [][\A c \in Calls :
          invoked'[c].cache_set > invoked[c].cache_set
              => Key(c) \notin DOMAIN document_cache]_vars

C2_Witness ==
    \E c1, c2 \in Calls :
        /\ c1 # c2 /\ Key(c1) = Key(c2)
        /\ InFlight(c1) /\ InFlight(c2)
        /\ Stored(c1) /\ FoundEntry(c2)

\* C3: every entry of the document cache is a pair (index, chunks) whose
\* index holds as many vectors as there are chunks, the vector at position i
\* being the embedding of chunk i.
C3_IndexAlignsWithChunks ==
    \A k \in DOMAIN document_cache :
        LET index == document_cache[k][1]
            chunks == document_cache[k][2]
        IN  /\ Len(index) = Len(chunks)
            /\ \A i \in 1..Len(chunks) : index[i] = Embed(chunks[i])

C3_Witness ==
    \E k \in DOMAIN document_cache : Len(document_cache[k][2]) >= 2

\* C4, as stated: a call whose lookup found an entry found one built for its
\* own conversation and file_url.
C4_NoAliasing ==
    \A c \in Calls : FoundEntry(c) => frame[c].cached_for = Pair(c)

\* C5, as stated: the search is issued with k = min(3, N), every position it
\* returns lies in [0, N), and a call on a document of fewer than 3 chunks
\* does not raise.
C5_ClampedAndNoError ==
    \A c \in Calls :
        LET N == Len(frame[c].chunks)
        IN  /\ invoked[c].search > 0 =>
                /\ frame[c].k = min(3, N)
                /\ Len(frame[c].indices) = frame[c].k
                /\ \A i \in 1..Len(frame[c].indices) :
                       0 <= frame[c].indices[i] /\ frame[c].indices[i] < N
            /\ (invoked[c].split_text > 0 /\ N < 3) => pc[c] # "raised"

\* C6: a call whose extraction yielded no content does not raise, embeds
\* nothing, generates nothing and stores nothing; it ends with the echo and
\* the diagnostic on its stage and 'Error: File content not found.' as its
\* result.
C6_NotFound ==
    \A c \in Calls :
        ExtractedNothing(c) =>
            /\ pc[c] \in {"extracted", "done"}
            /\ invoked[c].split_text = 0
            /\ invoked[c].encode_chunks = 0
            /\ invoked[c].encode_query = 0
            /\ invoked[c].generate = 0
            /\ invoked[c].cache_set = 0
            /\ pc[c] = "done" =>
                /\ result[c] = <<"Error: File content not found.">>
                /\ stage[c] = RequestEcho(params[c].request, params[c].file_url)
                                  \o NotFoundEntries

C6_Witness ==
    \E c \in Calls : ExtractedNothing(c) /\ pc[c] = "done"

\* C7, as stated: while a call builds the index of one key, a call waiting
\* to start on another key can take its step.
C7_NoBlocking ==
    \A a, b \in Calls :
        (a # b /\ Building(a) /\ pc[b] = "called" /\ Key(a) # Key(b))
            => ENABLED Start(b)

\* C8, as stated: self.tools is assigned at most once and an installed tool
\* list is never replaced.
C8_CreatedOnce == installs <= 1 /\ ~replaced

\* The kinds of the stage entries of a run that reaches generation.
SuccessOrder ==
    <<"args_header", "request", "file_url", "rag_header", "prompt", "response_header">>

\* C9: on the stage of a call that found content, the request echo comes
\* first, then the augmented prompt, then the answer tokens; a finished call
\* has shown the echo of its own request and the prompt it built.
C9_StageOrder ==
    \A c \in Calls :
        ~ExtractedNothing(c) =>
            /\ \A i \in 1..Len(stage[c]) :
                  stage[c][i].kind =
                      IF i <= Len(SuccessOrder) THEN SuccessOrder[i] ELSE "token"
            /\ pc[c] = "done" =>
                  /\ Len(stage[c]) >= Len(SuccessOrder)
                  /\ SubSeq(stage[c], 1, 3) =
                         RequestEcho(params[c].request, params[c].file_url)
                  /\ stage[c][5].text =
                         <<Fence, "text\n\r">> \o frame[c].augmented_prompt
                             \o <<"\n\r", Fence, "\n\r">>

C9_Witness ==
    \E c \in Calls : pc[c] = "done" /\ Len(stage[c]) >= Len(SuccessOrder) + 2

RECURSIVE Deltas(_)
\* The non-empty text deltas among stream items, in order.
Deltas(items) ==
    IF items = <<>> THEN <<>>
    ELSE (IF items[1].choices /\ items[1].content # <<>>
          THEN <<items[1].content>> ELSE <<>>) \o Deltas(Tail(items))

IsToken(entry) == entry.kind = "token"

\* The answer tokens on the stage of a call, in order.
StageTokens(c) ==
    LET tokens == SelectSeq(stage[c], IsToken)
    IN  [i \in 1..Len(tokens) |-> tokens[i].text]

\* C10: whenever a call waits for the next stream item or has returned,
\* the tokens on its stage are the non-empty deltas received so far, in
\* order; while it holds an item, every earlier delta is already on the
\* stage; and the string it returns is the concatenation of the tokens on
\* its stage.
C10_StreamedAndAccumulated ==
    \A c \in Calls :
        invoked[c].generate > 0 =>
            /\ pc[c] \in {"stream", "done"} =>
                  /\ StageTokens(c) = Deltas(arrived[c])
                  /\ frame[c].content = Concat(StageTokens(c))
            /\ pc[c] = "item" =>
                  StageTokens(c) = Deltas(SubSeq(arrived[c], 1, Len(arrived[c]) - 1))
            /\ pc[c] = "done" => result[c] = Concat(StageTokens(c))

C10_Witness ==
    \E c \in Calls :
        /\ pc[c] = "done"
        /\ Len(StageTokens(c)) = 2
        /\ StageTokens(c)[1] # StageTokens(c)[2]

\* The generation of the call was ended early for the given reason.
Interrupted(c, why) == interrupted[c] # None /\ interrupted[c][1].why = why

\* C11: a call whose turn was cancelled while it awaited the generation
\* backend has left _execute with CancelledError: its stage is as it was at
\* the cancellation (no further token) and it has returned nothing.
C11_CancelStopsTokens ==
    \A c \in Calls :
        Interrupted(c, "cancelled") =>
            /\ pc[c] = "cancelled"
            /\ stage[c] = interrupted[c][1].stage
            /\ result[c] = <<>>

C11_Witness ==
    \E c \in Calls :
        /\ Interrupted(c, "cancelled")
        /\ pc[c] = "cancelled"
        /\ Len(StageTokens(c)) >= 1
        /\ received < stream_limit

\* C12: a call whose generation call or stream failed has left _execute
\* with the exception: it has not returned, neither an empty string nor the
\* text read before the failure.
C12_FailurePropagates ==
    \A c \in Calls :
        Interrupted(c, "failed") =>
            /\ pc[c] = "raised"
            /\ result[c] = <<>>
            /\ stage[c] = interrupted[c][1].stage

C12_Witness ==
    \E c \in Calls :
        /\ Interrupted(c, "failed")
        /\ pc[c] = "raised"
        /\ Truthy(frame[c].content)

\* The call has built its prompt (line 194).
Augmented(c) == invoked[c].generate > 0

\* The distance of chunk number idx (0-based) of the call to its query.
DistanceToQuery(c, idx) ==
    L2(Embed(frame[c].chunks[idx + 1]), Embed(params[c].request))

\* C13: the prompt of a call is 'CONTEXT:\n', the retrieved chunks joined by
\* a blank line, '\n---\nREQUEST: ' and the query; the i-th retrieved chunk
\* is chunks[idx] for the i-th position idx the search returned, and the
\* positions are in order of ascending distance to the query.
C13_PromptFromSearchOrder ==
    \A c \in Calls :
        Augmented(c) =>
            LET indices == frame[c].indices
                retrieved == frame[c].retrieved_chunks
            IN  /\ Len(retrieved) = Len(indices)
                /\ \A i \in 1..Len(indices) :
                      /\ indices[i] \in 0..(Len(frame[c].chunks) - 1)
                      /\ retrieved[i] = frame[c].chunks[indices[i] + 1]
                /\ \A i, j \in 1..Len(indices) :
                      i < j => DistanceToQuery(c, indices[i])
                                   <= DistanceToQuery(c, indices[j])
                /\ frame[c].augmented_prompt =
                      <<"CONTEXT:\n">> \o Join(retrieved, <<"\n\n">>)
                          \o <<"\n---\nREQUEST: ">> \o params[c].request

\* A prompt whose chunks are not in document order.
C13_Witness ==
    \E c \in Calls :
        /\ Augmented(c)
        /\ Len(frame[c].indices) = 3
        /\ frame[c].indices[1] > frame[c].indices[2]

\* C14: a call whose lookup found an entry works on the pair it found: no
\* step it takes changes the document cache, it calls neither index.add nor
\* document_cache.set, and the index and chunks it searches are those of
\* the entry.
C14_HitLeavesCacheAlone ==
    [][\A c \in Calls :
          (FoundEntry(c) /\ pc'[c] # pc[c]) =>
              /\ document_cache' = document_cache
              /\ invoked'[c].cache_set = 0
              /\ invoked'[c].index_add = 0
              /\ pc'[c] \in {"searched", "create"} =>
                    /\ frame'[c].index = frame[c].cached_data[1][1]
                    /\ frame'[c].chunks = frame[c].cached_data[1][2]]_vars

\* A call on a hit has searched the entry while the cache still holds it.
C14_Witness ==
    \E c \in Calls :
        /\ FoundEntry(c)
        /\ pc[c] = "done"
        /\ Key(c) \in DOMAIN document_cache
        /\ frame[c].cached_data = Some(document_cache[Key(c)])
        /\ Len(frame[c].chunks) >= 2

\* The page the caller asked for (1 when none was given).
AskedPage == GetPage(fce_arguments).n

\* The number of pages of a text: the least n whose n pages hold it.
PagesOf(len) == CHOOSE n \in 0..len : n * page_size >= len /\ (n - 1) * page_size < len

\* The call has returned for arguments with a file_url and an integer page.
FceReturned ==
    /\ fce_pc = "done"
    /\ "file_url" \in DOMAIN fce_arguments
    /\ GetPage(fce_arguments).type = "integer"

\* C15: for a text of more than 10,000 characters and a page p with
\* 1 <= p <= total_pages = ceil(len / 10000), the call returns the
\* characters [(p-1)*10000 : p*10000] of the text followed by the marker
\* 'Page #p. Total pages: total_pages' (set in bold after a blank line).
C15_PageSliceAndMarker ==
    LET len == fce_frame.extracted_len
        total == PagesOf(len)
        p == AskedPage
    IN  (FceReturned /\ len > page_size /\ 1 <= p /\ p <= total) =>
            /\ fce_frame.total_pages = total
            /\ fce_result =
                  << Chars((p - 1) * page_size,
                           IF p * page_size < len THEN p * page_size ELSE len),
                     Lit("\n\n**Page #"), Num(p), Lit(". Total pages: "),
                     Num(total), Lit("**") >>

\* The last, partly filled page of a text of three pages.
C15_Witness ==
    /\ FceReturned
    /\ fce_frame.extracted_len = 2 * page_size + page_size \div 2
    /\ AskedPage = 3
    /\ fce_result[1] = Chars(2 * page_size, 2 * page_size + page_size \div 2)

\* C16, as stated: a call on a text of several pages, with a page below 1 or
\* above the number of pages of the document, returns an error string that
\* names the page count, and no page content.
C16_OutOfRangeRejected ==
    LET len == fce_frame.extracted_len
        total == PagesOf(len)
        p == AskedPage
    IN  (FceReturned /\ len > page_size /\ (p < 1 \/ p > total)) =>
            fce_result = PageDoesNotExist(p, total)

\* C17, as stated: a call whose arguments lack a required field or carry a
\* bad page number does not raise.
C17_BadArgumentsReported ==
    ("file_url" \notin DOMAIN fce_arguments \/ GetPage(fce_arguments).type # "integer")
        => fce_pc # "raised"

\* C18, as stated: reading `parameters` on any tool of the installed tool
\* set gives a schema object and does not raise.
C18_EveryToolHasSchema ==
    \A i \in 1..Len(tools) :
        /\ parameters(tools[i]).raises = ""
        /\ parameters(tools[i]).type = "object"

\* The names of the tools every complete tool list starts with.
BuiltIn ==
    <<"image_generation_tool", "file_content_extraction_tool", "rag_tool",
      "execute_code">>

\* The tool list holds the four built-in tools.
Complete(list) ==
    /\ Len(list) >= Len(BuiltIn)
    /\ \A i \in 1..Len(BuiltIn) : list[i].name = BuiltIn[i]

\* The request's construction failed for want of the configured tool.
FailedForTool(r) == req_pc[r] = "failed" /\ Len(req_tools[r]) = 3

\* C19: self.tools and the tool list of every agent are empty or complete;
\* the step at which a request fails leaves self.tools as it was; and a
\* request that finds self.tools empty enters the construction.
C19_NoPartialToolList ==
    /\ [](/\ tools = <<>> \/ Complete(tools)
          /\ \A r \in ChatRequests :
                /\ req_agent[r] = <<>> \/ Complete(req_agent[r])
                /\ req_pc[r] \in {"handle", "done"} => Complete(req_agent[r]))
    /\ [][\A r \in ChatRequests :
            /\ (req_pc'[r] = "failed" /\ req_pc[r] # "failed") => tools' = tools
            /\ (req_pc[r] = "idle" /\ req_pc'[r] # "idle" /\ tools = <<>>)
                    => req_pc'[r] = "py_interpreter"]_vars

\* A request failed for want of the tool, nothing was installed by then, and
\* a later request built the whole list.
C19_Witness ==
    \E r1, r2 \in ChatRequests :
        /\ r1 < r2
        /\ FailedForTool(r1)
        /\ installs = 1
        /\ req_pc[r2] = "done"
        /\ req_agent[r2] = tools

RECURSIVE ImageReferences(_)
\* One reference per attachment of type image/png or image/jpeg, in order.
ImageReferences(attachments) ==
    IF attachments = <<>> THEN <<>>
    ELSE (IF attachments[1].type = "image/png" \/ attachments[1].type = "image/jpeg"
          THEN << <<"\n\r![image](">> \o attachments[1].url \o <<")\n\r">> >>
          ELSE <<>>) \o ImageReferences(Tail(attachments))

\* C20: the choice holds one markdown image reference per attachment of
\* type image/png or image/jpeg that the loop has gone through, in
\* attachment order, and nothing else; a returned call has gone through
\* all attachments.
C20_OneReferencePerImage ==
    /\ img_choice = ImageReferences(SubSeq(img_msg.attachments, 1, img_done))
    /\ img_pc = "done" => img_choice = ImageReferences(img_msg.attachments)

\* A returned call on a message with two images around another attachment.
C20_Witness ==
    /\ img_pc = "done"
    /\ Len(img_msg.attachments) = 3
    /\ img_msg.attachments[1].type = "image/png"
    /\ img_msg.attachments[2].type = "application/pdf"
    /\ img_msg.attachments[3].type = "image/jpeg"
    /\ Len(img_choice) = 2

\* C21: a returned call whose generation result carried no text returns
\* the confirmation sentence as content; one whose result carried text
\* returns that text unchanged.
C21_ConfirmationWhenNoText ==
    img_pc = "done" =>
        img_result.content = IF img_msg.content = <<>> THEN Confirmation
                             ELSE img_msg.content

\* The stage shows the code and, after it, one session line: the session
\* of the arguments when it is supplied and not zero, else the new session.
EchoedCodeAndSession ==
    /\ Len(py_stage) >= 3
    /\ py_stage[2].kind = "code"
    /\ py_stage[2].text =
          <<Lit("<fence>python\n\r"), Lit(py_arguments.code), Lit("\n\r<fence>\n\r")>>
    /\ py_stage[3].kind = "session"
    /\ py_stage[3].text =
          IF py_arguments.session_id.present /\ py_arguments.session_id.n # 0
          THEN <<Lit("**session_id**: "), Num(py_arguments.session_id.n), Lit("\n\r")>>
          ELSE <<Lit("New session will be created\n\r")>>
    /\ Cardinality({i \in DOMAIN py_stage : py_stage[i].kind = "session"}) = 1
    /\ Cardinality({i \in DOMAIN py_stage : py_stage[i].kind = "code"}) = 1

\* C22: the step that issues call_tool finds the executed code and then
\* exactly one session line (the session identifier when one is supplied
\* and not zero, otherwise 'New session will be created') on the stage,
\* and they stay the only such lines for the rest of the run.
C22_EchoBeforeCallTool ==
    /\ [](py_invoked.call_tool > 0 => EchoedCodeAndSession)
    /\ [][py_invoked'.call_tool > py_invoked.call_tool
            => EchoedCodeAndSession /\ py_stage' = py_stage]_vars

\* A returned run with session 7, and call_tool issued once.
C22_Witness ==
    /\ py_pc = "done"
    /\ py_invoked.call_tool = 1
    /\ py_arguments.session_id = Session(7)
    /\ py_stage[3].text = <<Lit("**session_id**: "), Num(7), Lit("\n\r")>>

\* The files of the answer of the remote.
RemoteFiles == py_execution_result_json.files

\* The attachment a generated file is registered with.
AttachmentOf(file) ==
    [url |-> <<"files/", "appdata-home", "/", file.name>>,
     type |-> file.mime_type, title |-> file.name]

\* The upload a generated file is stored with: text, JSON and XML as the
\* UTF-8 bytes of the resource, anything else as the bytes of its base64.
UploadOf(file) ==
    [url |-> <<"files/", "appdata-home", "/", file.name>>,
     file |-> [bytes |-> IF file.mime_type \in {"text/plain", "application/json",
                                                  "application/xml"}
                         THEN "utf-8 encoded" ELSE "base64 decoded",
               of |-> file.uri]]

\* C23: the stage and the choice carry the same attachments, one per file
\* the loop has gone through, in file order; each was registered after
\* the file's resource was fetched and uploaded under
\* files/<appdata home>/<file name>; a returned call has gone through all
\* files of the result.
C23_FetchedUploadedThenAttached ==
    /\ py_files_done <= Len(RemoteFiles)
    /\ py_stage_attachments = [i \in 1..py_files_done |-> AttachmentOf(RemoteFiles[i])]
    /\ py_choice_attachments = py_stage_attachments
    /\ Len(py_stage_attachments) <= Len(py_uploads)
    /\ Len(py_uploads) <= py_invoked.get_resource
    /\ py_invoked.upload = Len(py_uploads)
    /\ py_uploads = [i \in 1..Len(py_uploads) |-> UploadOf(RemoteFiles[i])]
    /\ py_pc = "done" =>
          /\ py_files_done = Len(RemoteFiles)
          /\ Len(py_uploads) = Len(RemoteFiles)
          /\ py_invoked.get_resource = Len(RemoteFiles)

\* A returned call whose run generated an image and then a JSON file.
C23_Witness ==
    /\ py_pc = "done"
    /\ Len(RemoteFiles) = 2
    /\ RemoteFiles[1].mime_type = "image/png"
    /\ RemoteFiles[2].mime_type = "application/json"
    /\ Len(py_stage_attachments) = 2
    /\ Len(py_choice_attachments) = 2
    /\ py_uploads[1].file.bytes = "base64 decoded"
    /\ py_uploads[2].file.bytes = "utf-8 encoded"

\* The output entries of the answer of the remote.
RemoteOutput == py_execution_result_json.output

\* The number of characters of a piece of text.
Length(piece) == piece.to - piece.from

\* The output entries are those of the remote, each cut to its first 200
\* characters.
CutTo200(output) ==
    /\ Len(output) = Len(RemoteOutput)
    /\ \A i \in DOMAIN output :
          /\ Length(output[i]) <= 200
          /\ output[i].from = RemoteOutput[i].from
          /\ Length(output[i]) = IF Length(RemoteOutput[i]) <= 200
                                 THEN Length(RemoteOutput[i]) ELSE 200
          /\ Length(RemoteOutput[i]) <= 200 => output[i] = RemoteOutput[i]

C28_InstructionReturned ==
    py_pc = "done" /\ RemoteFiles # <<>> =>
        py_result.json.instructions =
            <<"Generates files have been provided to user, DON'T include links to them in response!">>

\* C25, as stated: the schema of every RagTool of the installed tool set
\* declares request and file_url, and every name of its `required` list is
\* declared in its `properties`.
C25_RequiredAreDeclared ==
    \A i \in 1..Len(tools) :
        ToolClass(tools[i].name) = "RagTool" =>
            /\ {"request", "file_url"} \subseteq RagToolParameters.properties
            /\ \A j \in 1..Len(RagToolParameters.required) :
                  RagToolParameters.required[j] \in RagToolParameters.properties

\* The call has split the text it extracted (line 183).
HasSplit(c) == invoked[c].split_text > 0

\* An atom of whitespace: a blank or a paragraph break.
IsBlank(atom) == atom = " " \/ atom = "\n\n"

IsText(atom) == ~IsBlank(atom)

InGeneration(c) == pc[c] \in {"create", "stream"} \/ interrupted[c] # None

\* C27, as stated: the entry a call stored is in the cache when its
\* generation has failed or was cancelled.
C27_EntryRemains ==
    \A c \in Calls :
        (interrupted[c] # None /\ Stored(c)) => Key(c) \in DOMAIN document_cache

\* C27, amended: a call on a miss has stored its entry before its
\* generation starts; the failure or cancellation of the generation leaves
\* the cache as it is; and as long as the cache holds the entry left behind
\* (it has not evicted it), the lookup of a later call of the same key
\* finds it, and that call extracts, splits and embeds nothing.
C27_FailureKeepsEntry ==
    /\ [](\A c \in Calls :
            /\ (InGeneration(c) /\ ~FoundEntry(c)) => Stored(c)
            /\ FoundEntry(c) =>
                  /\ invoked[c].extract_text = 0
                  /\ invoked[c].split_text = 0
                  /\ invoked[c].encode_chunks = 0)
    /\ [](abandoned \subseteq DOMAIN document_cache)
    /\ [][\A c \in Calls :
            /\ (interrupted[c] = None /\ interrupted'[c] # None)
                  => document_cache' = document_cache
            /\ (pc[c] = "key" /\ pc'[c] = "got" /\ Key(c) \in abandoned)
                  => frame'[c].cached_data = Some(document_cache[Key(c)])]_vars

\* A call has answered from the entry an earlier call left behind when its
\* generation failed or was cancelled.
C27_Witness ==
    \E c \in Calls :
        /\ pc[c] = "done"
        /\ FoundEntry(c)
        /\ Key(c) \in abandoned
        /\ invoked[c].extract_text = 0
        /\ invoked[c].encode_chunks = 0

\* C29, as stated: when a call of the extraction tool has returned, the
\* last entry of its stage shows the string it returned.
C29_ResultShownOnStage ==
    fce_pc = "done" =>
        /\ fce_stage # <<>>
        /\ fce_stage[Len(fce_stage)].text =
              <<Lit(Fence), Lit("text\n\r")>> \o fce_result
                  \o <<Lit("\n\r"), Lit(Fence), Lit("\n\r")>>

\* C30: for a text of more than 10,000 characters, the bodies of the pages
\* 1..total_pages lie end to end from the first character of the text to
\* its last: each begins where the one before it ends, none is empty, each
\* but the last has exactly 10,000 characters; and the body a call returns
\* for a page in that range is that page's.
C30_PagesPartitionText ==
    LET len == fce_frame.extracted_len
        total == fce_frame.total_pages
        p == AskedPage
    IN  (FceReturned /\ len > page_size /\ 1 <= p /\ p <= PagesOf(len)) =>
            /\ total = PagesOf(len)
            /\ page_content(len, 1).from = 0
            /\ page_content(len, total).to = len
            /\ \A q \in 1..total :
                  /\ page_content(len, q).to > page_content(len, q).from
                  /\ q < total =>
                        /\ page_content(len, q).to = page_content(len, q + 1).from
                        /\ page_content(len, q).to - page_content(len, q).from = 10000
            /\ fce_result[1] = page_content(len, p)

\* The second of the three pages of a text of 25,000 characters.
C30_Witness ==
    /\ FceReturned
    /\ fce_frame.extracted_len = 25000
    /\ fce_frame.total_pages = 3
    /\ AskedPage = 2
    /\ fce_result[1] = Chars(10000, 20000)

====
